---- MODULE Spec2Model ----
(***************************************************************************)
(* Model of grok_image_generator.py: the interactive loop of main(), the   *)
(* orchestration generate_and_download, the API client generate_image and  *)
(* the downloader download_image with its filename derivation.             *)
(*                                                                         *)
(* Strings are sequences of one-character strings.  An optional value is   *)
(* None or Some(x).  The download folder is fixed for the whole run, so a  *)
(* file path is represented by its file name inside that folder.           *)
(***************************************************************************)
EXTENDS Integers, Sequences, FiniteSets

VARIABLES
    pc,           \* position of main(): see Positions
    line,         \* the raw line last returned by input() at line 162
    prompt,       \* main's `prompt` (the line, stripped)
    result,       \* generate_and_download's `result`
    postStatus,   \* what the last POST did (None before the first POST of an attempt)
    getStatus,    \* what the last GET did (None when the attempt issued no GET)
    filepath,     \* main's `filepath`
    image_count,  \* main's `image_count`
    reported,     \* the total printed at line 165 (-1: nothing printed yet)
    clock,        \* the local clock, in ticks
    files,        \* the download folder: file name -> contents
    hist          \* history of the run (what happened, never read by the program)

vars == <<pc, line, prompt, result, postStatus, getStatus, filepath,
          image_count, reported, clock, files, hist>>

-----------------------------------------------------------------------------
(* Bounds of the model *)

MaxTail == 2       \* characters appended to a padding in the filename inputs
MaxImages == 2     \* length of the image list of a response
MaxSleeps == 2     \* sleeps of 1 second the clock of a run has room for
TicksPerSec == 2   \* resolution of the clock: ticks per second

(* Constants of the program *)

PrefixLen == 50
SleepSeconds == 1

-----------------------------------------------------------------------------
(* Optional values *)

None == [none |-> TRUE]
Some(x) == [some |-> x]

(* Characters *)

Whitespace == {" ", "\t"}
LowerLetters == {"a", "e", "i", "q", "t", "u", "x", "z"}
UpperLetters == {"A", "E", "I", "Q", "T", "U", "X", "Z"}
Digits == {"0", "1", "2", "3", "4", "5", "6", "7", "8", "9"}

\* str.isalnum() of one character
IsAlnum(c) == c \in LowerLetters \cup UpperLetters \cup Digits

\* str.isspace() of one character
IsSpace(c) == c \in Whitespace

\* str.lower() of one character
LowerChar(c) ==
    CASE c = "A" -> "a"
      [] c = "E" -> "e"
      [] c = "I" -> "i"
      [] c = "Q" -> "q"
      [] c = "T" -> "t"
      [] c = "U" -> "u"
      [] c = "X" -> "x"
      [] c = "Z" -> "z"
      [] OTHER -> c

(* Strings *)

\* str.lower()
Lower(s) == [i \in 1..Len(s) |-> LowerChar(s[i])]

RECURSIVE LStrip(_)
LStrip(s) ==
    IF s # <<>> /\ IsSpace(Head(s)) THEN LStrip(Tail(s)) ELSE s

RECURSIVE RStrip(_)
RStrip(s) ==
    IF s # <<>> /\ IsSpace(s[Len(s)]) THEN RStrip(SubSeq(s, 1, Len(s) - 1)) ELSE s

\* str.strip()
Strip(s) == RStrip(LStrip(s))

\* s[:n]
Take(s, n) == SubSeq(s, 1, IF Len(s) < n THEN Len(s) ELSE n)

\* str.replace(' ', '_')
ReplaceSpaces(s) == [i \in 1..Len(s) |-> IF s[i] = " " THEN "_" ELSE s[i]]

\* all strings over alphabet a of length at most n
StringsUpTo(a, n) == UNION {[1..k -> a] : k \in 0..n}

-----------------------------------------------------------------------------
(* Filename derivation of download_image *)

DigitChar(d) == <<"0", "1", "2", "3", "4", "5", "6", "7", "8", "9">>[d + 1]

TwoDigits(n) == <<DigitChar((n \div 10) % 10), DigitChar(n % 10)>>

\* datetime.strftime("%Y%m%d_%H%M%S") of the instant t seconds after the start
\* of the day the run happens on (2026-01-01); t stays within that day
Strftime(t) ==
    <<"2", "0", "2", "6", "0", "1", "0", "1", "_">>
        \o TwoDigits(t \div 3600) \o TwoDigits((t \div 60) % 60) \o TwoDigits(t % 60)

\* datetime.now(), truncated to the second by strftime
NowSeconds(ticks) == ticks \div TicksPerSec

\* the characters line 85 retains
Retained(c) == IsAlnum(c) \/ c \in {" ", "-", "_"}

\* safe_prompt computed from the whole prompt instead of prompt[:50]
SafePromptUntruncated(p) ==
    ReplaceSpaces(Strip(SelectSeq(p, Retained)))

\* safe_prompt of lines 85-86
SafePrompt(p) ==
    ReplaceSpaces(Strip(SelectSeq(Take(p, PrefixLen), Retained)))

\* filename of line 87
Filename(t, p) ==
    Strftime(t) \o <<"_">> \o SafePrompt(p) \o <<".", "p", "n", "g">>

-----------------------------------------------------------------------------
(* The remote API and the image host, as the program sees them *)

Urls == {"http://example/img1.png", "http://example/img2.png"}

\* an entry of the image list: a JSON object with or without the key 'url'
Entries == {[url |-> Some(u)] : u \in Urls} \cup {[url |-> None]}

ImageLists == UNION {[1..k -> Entries] : k \in 0..MaxImages}

\* a JSON object returned by the POST: its keys, and the value of 'data'
Responses ==
    {[keys |-> {"data"}, data |-> d] : d \in ImageLists}
        \cup {[keys |-> {}, data |-> <<>>], [keys |-> {"error"}, data |-> <<>>]}

\* what requests.post / raise_for_status / response.json() can do (lines 62-64)
PostOutcomes ==
    {[status |-> "network_error"], [status |-> "http_error"], [status |-> "bad_json"]}
        \cup {[status |-> "ok", json |-> r] : r \in Responses}

\* what requests.get / raise_for_status can do (lines 92-93)
GetOutcomes ==
    {[status |-> "network_error"], [status |-> "http_error"],
     [status |-> "ok", content |-> "PNGDATA"]}

\* what open(filepath, 'wb') and f.write can do (lines 96-97)
WriteOutcomes == {"ok", "open_error", "write_error"}

\* lines typed at the prompt of line 162
Lines ==
    {<<>>, <<" ">>, <<"\t", " ">>,
     <<"q">>, <<" ", "Q", " ">>, <<"q", "u", "i", "t">>, <<"E", "X", "I", "T">>,
     <<"Q", "u", "i", "t", " ">>,
     <<"a">>, <<" ", "a", " ", "q", "!">>, <<"q", "u", "i", "t", " ", "i", "t">>}

ExitKeywords == {<<"q", "u", "i", "t">>, <<"e", "x", "i", "t">>, <<"q">>}

-----------------------------------------------------------------------------
(* Helpers of the program *)

\* truthiness of generate_image's return value: None and {} are false
TruthyJson(res) == res # None /\ res.some.keys # {}

\* truthiness of a returned path: None and '' are false
TruthyPath(path) == path # None /\ path.some # <<>>

\* generate_image without raise_for_status: the body of an error response is
\* parsed and returned
GenerateResultWithoutStatusCheck(outcome) ==
    IF outcome.status = "ok" THEN Some(outcome.json)
    ELSE IF outcome.status = "http_error" THEN Some([keys |-> {"error"}, data |-> <<>>])
    ELSE None

\* generate_image's return value (lines 60-69): the parsed body, or None when
\* the POST raised a RequestException (JSONDecodeError of requests is one)
GenerateResult(outcome) ==
    IF outcome.status = "ok" THEN Some(outcome.json) ELSE None

\* the condition of line 118
HasImages(res) ==
    /\ TruthyJson(res)
    /\ "data" \in res.some.keys
    /\ Len(res.some.data) > 0

\* the condition of line 164 without .lower()
IsExitCaseSensitive(p) == p \in ExitKeywords

\* the condition of line 164
IsExit(p) == Lower(p) \in ExitKeywords

\* image_count incremented outside the test of line 192
CountedAlways(count, path) == count + 1

\* image_count after lines 192-196
Counted(count, path) == IF TruthyPath(path) THEN count + 1 ELSE count

\* time.sleep(0) at line 199
SleepTicksNone == 0 * TicksPerSec

\* ticks slept by time.sleep(1) of line 199
SleepTicks == SleepSeconds * TicksPerSec

\* the file opened before the GET is issued
OpensFileBeforeGet(got, wrote) == wrote # "open_error"

\* whether download_image reaches open(filepath, 'wb') of line 96 and the open
\* succeeds: lines 92-93 come first and leave the try block when they raise
OpensFile(got, wrote) == got.status = "ok" /\ wrote # "open_error"

\* the folder after lines 96-97 wrote `content` to `name`
Written(fs, name, content) ==
    [n \in DOMAIN fs \cup {name} |-> IF n = name THEN content ELSE fs[n]]

StartTicks == 59 * TicksPerSec
MaxClock == StartTicks + MaxSleeps * SleepTicks + 1

-----------------------------------------------------------------------------
(* State *)

Positions ==
    {"AWAITING_PROMPT",  \* about to call input() at line 162
     "generate",         \* in generate_and_download, about to call generate_image
     "have_result",      \* generate_image returned, at line 118
     "returned",         \* generate_and_download returned, at line 192
     "sleep",            \* at line 199
     "EXITING",          \* left the loop through line 166
     "crashed",          \* an exception left main()
     "eof",              \* input() raised EOFError
     "download_image",   \* download_image called on its own, at line 82
     "named"}            \* download_image at line 88, the file name derived

Terminal == {"EXITING", "crashed", "eof"}

\* what the history keeps of the attempt in progress: the urls download_image
\* was called with, the response the POST returned (whether its image list is
\* present and non-empty, and the 'url' of its first entry), what lines 96-97
\* did, and the counters as they were when the attempt started
NoAttempt ==
    [calls |-> <<>>, listed |-> FALSE, first |-> None, wrote |-> None,
     posts |-> 0, gets |-> 0, count |-> 0]

Init ==
    /\ pc = "AWAITING_PROMPT"
    /\ line = <<>>
    /\ prompt = <<>>
    /\ result = None
    /\ postStatus = None
    /\ getStatus = None
    /\ filepath = None
    /\ image_count = 0
    /\ reported = -1
    /\ clock = StartTicks
    /\ files = <<>>
    /\ hist = [attempts |-> 0, posts |-> 0, gets |-> 0, sleeps |-> 0,
               returned |-> 0, saved |-> <<>>, overwrites |-> 0,
               attempt |-> NoAttempt]

-----------------------------------------------------------------------------
(* main(): the interactive loop, lines 160-199 *)

\* lines 162-166: an exit keyword ends the loop
ReadExit(l) ==
    /\ pc = "AWAITING_PROMPT"
    /\ IsExit(Strip(l))
    /\ line' = l
    /\ prompt' = Strip(l)
    /\ reported' = image_count
    /\ pc' = "EXITING"
    /\ UNCHANGED <<result, postStatus, getStatus, filepath,
                   image_count, clock, files, hist>>

\* lines 162-170 without the `continue` of line 170
ReadEmptyFallsThrough(l) ==
    /\ pc = "AWAITING_PROMPT"
    /\ ~IsExit(Strip(l))
    /\ Strip(l) = <<>>
    /\ line' = l
    /\ prompt' = Strip(l)
    /\ pc' = "generate"
    /\ hist' = [hist EXCEPT !.attempts = @ + 1,
                            !.attempt = [NoAttempt EXCEPT !.posts = hist.posts,
                                                          !.gets = hist.gets,
                                                          !.count = image_count]]
    /\ UNCHANGED <<result, postStatus, getStatus, filepath,
                   image_count, reported, clock, files>>

\* lines 162-170: an empty prompt is refused
ReadEmpty(l) ==
    /\ pc = "AWAITING_PROMPT"
    /\ ~IsExit(Strip(l))
    /\ Strip(l) = <<>>
    /\ line' = l
    /\ prompt' = Strip(l)
    /\ UNCHANGED <<pc, result, postStatus, getStatus, filepath,
                   image_count, reported, clock, files, hist>>

\* lines 162-190: any other prompt starts an attempt (the settings asked for at
\* lines 173-187 only fill the request body)
ReadPrompt(l) ==
    /\ pc = "AWAITING_PROMPT"
    /\ ~IsExit(Strip(l))
    /\ Strip(l) # <<>>
    /\ line' = l
    /\ prompt' = Strip(l)
    /\ pc' = "generate"
    /\ hist' = [hist EXCEPT !.attempts = @ + 1,
                            !.attempt = [NoAttempt EXCEPT !.posts = hist.posts,
                                                          !.gets = hist.gets,
                                                          !.count = image_count]]
    /\ UNCHANGED <<result, postStatus, getStatus, filepath,
                   image_count, reported, clock, files>>

\* line 162: the input stream is closed
EndOfInput ==
    /\ pc = "AWAITING_PROMPT"
    /\ pc' = "eof"
    /\ UNCHANGED <<line, prompt, result, postStatus, getStatus, filepath,
                   image_count, reported, clock, files, hist>>

\* lines 116, 46-69: generate_image
GenerateImage(outcome) ==
    /\ pc = "generate"
    /\ postStatus' = Some(outcome.status)
    /\ result' = GenerateResult(outcome)
    /\ hist' = [hist EXCEPT
                  !.posts = @ + 1,
                  !.attempt.listed =
                      /\ outcome.status = "ok"
                      /\ "data" \in outcome.json.keys
                      /\ outcome.json.data # <<>>,
                  !.attempt.first =
                      IF outcome.status = "ok" /\ outcome.json.data # <<>>
                      THEN outcome.json.data[1].url ELSE None]
    /\ pc' = "have_result"
    /\ UNCHANGED <<line, prompt, getStatus, filepath, image_count,
                   reported, clock, files>>

\* lines 118, 121-123, 190: no image list; the locals of generate_and_download
\* are gone when it returns
NoImageFound ==
    /\ pc = "have_result"
    /\ ~HasImages(result)
    /\ filepath' = None
    /\ result' = None
    /\ pc' = "returned"
    /\ UNCHANGED <<line, prompt, postStatus, getStatus,
                   image_count, reported, clock, files, hist>>

\* lines 118-119: the first entry has no 'url'; the KeyError is caught neither
\* in generate_and_download nor in main
UrlKeyError ==
    /\ pc = "have_result"
    /\ HasImages(result)
    /\ result.some.data[1].url = None
    /\ pc' = "crashed"
    /\ UNCHANGED <<line, prompt, result, postStatus, getStatus, filepath,
                   image_count, reported, clock, files, hist>>

\* lines 118-120, 82-103, 190: download_image with the first url
DownloadImage(got, wrote) ==
    /\ pc = "have_result"
    /\ HasImages(result)
    /\ result.some.data[1].url # None
    /\ got.status # "ok" => wrote = "ok"
    /\ LET url == result.some.data[1].url.some
           name == Filename(NowSeconds(clock), prompt)
           saved == got.status = "ok" /\ wrote = "ok"
           opened == OpensFile(got, wrote)
       IN  /\ getStatus' = Some(got.status)
           /\ files' = IF ~opened THEN files
                        ELSE IF saved THEN Written(files, name, got.content)
                        ELSE Written(files, name, "<truncated>")
           /\ filepath' = IF saved THEN Some(name) ELSE None
           /\ hist' = [hist EXCEPT
                         !.gets = @ + 1,
                         !.attempt.calls = Append(@, url),
                         !.attempt.wrote =
                             IF got.status = "ok" THEN Some(wrote) ELSE None,
                         !.returned = IF saved THEN @ + 1 ELSE @,
                         !.saved = IF saved THEN Append(@, name) ELSE @,
                         !.overwrites =
                             IF opened /\ name \in DOMAIN files THEN @ + 1 ELSE @]
    /\ result' = None
    /\ pc' = "returned"
    /\ UNCHANGED <<line, prompt, postStatus, image_count, reported, clock>>

\* lines 192-196
Count ==
    /\ pc = "returned"
    /\ image_count' = Counted(image_count, filepath)
    /\ pc' = "sleep"
    /\ UNCHANGED <<line, prompt, result, postStatus, getStatus, filepath,
                   reported, clock, files, hist>>

\* line 199, then back to line 160
Sleep ==
    /\ pc = "sleep"
    /\ clock + SleepTicks <= MaxClock
    /\ clock' = clock + SleepTicks
    /\ postStatus' = None
    /\ getStatus' = None
    /\ hist' = [hist EXCEPT !.sleeps = @ + 1, !.attempt = NoAttempt]
    /\ pc' = "AWAITING_PROMPT"
    /\ UNCHANGED <<line, prompt, result, filepath, image_count,
                   reported, files>>

\* time passes while the program waits for input (line 162) or for the
\* network (lines 62, 92)
Tick ==
    /\ pc \in {"AWAITING_PROMPT", "generate", "have_result", "download_image"}
    /\ clock < MaxClock
    /\ clock' = clock + 1
    /\ UNCHANGED <<pc, line, prompt, result, postStatus, getStatus,
                   filepath, image_count, reported, files, hist>>

Next ==
    \/ \E l \in Lines : ReadExit(l)
    \/ \E l \in Lines : ReadEmpty(l)
    \/ \E l \in Lines : ReadPrompt(l)
    \/ EndOfInput
    \/ \E outcome \in PostOutcomes : GenerateImage(outcome)
    \/ NoImageFound
    \/ UrlKeyError
    \/ \E got \in GetOutcomes, wrote \in WriteOutcomes : DownloadImage(got, wrote)
    \/ Count
    \/ Sleep
    \/ Tick

Spec == Init /\ [][Next]_vars

-----------------------------------------------------------------------------
(* download_image's filename derivation on its own: the prompts are a padding *)
(* of PrefixLen - 1 characters, or nothing, followed by a few characters      *)

FilenameAlphabet == {"a", "Z", " ", "-", "_", "!"}

Padding == [i \in 1..(PrefixLen - 1) |-> "a"]

FilenamePrompts ==
    {head \o tail : head \in {<<>>, Padding},
                    tail \in StringsUpTo(FilenameAlphabet, MaxTail)} \ {<<>>}

InitFilename ==
    /\ pc = "download_image"
    /\ line = <<>>
    /\ prompt \in FilenamePrompts
    /\ result = None
    /\ postStatus = None
    /\ getStatus = None
    /\ filepath = None
    /\ image_count = 0
    /\ reported = -1
    /\ clock = StartTicks
    /\ files = <<>>
    /\ hist = [attempts |-> 0, posts |-> 0, gets |-> 0, sleeps |-> 0,
               returned |-> 0, saved |-> <<>>, overwrites |-> 0,
               attempt |-> NoAttempt]

\* lines 84-88
DeriveFilename ==
    /\ pc = "download_image"
    /\ filepath' = Some(Filename(NowSeconds(clock), prompt))
    /\ pc' = "named"
    /\ UNCHANGED <<line, prompt, result, postStatus, getStatus,
                   image_count, reported, clock, files, hist>>

NextFilename ==
    \/ DeriveFilename
    \/ Tick

SpecFilename == InitFilename /\ [][NextFilename]_vars

-----------------------------------------------------------------------------
(* Properties *)

PostFailures == {Some("network_error"), Some("http_error")}
GetFailures == {Some("network_error"), Some("http_error")}

\* the line, trimmed, is an exit keyword up to the case of its letters
MatchesExitKeyword(l) ==
    \E k \in ExitKeywords :
        /\ Len(Strip(l)) = Len(k)
        /\ \A i \in 1..Len(k) : LowerChar(Strip(l)[i]) = k[i]

\* a step of the loop that reads a line at line 162
ReadsLine == pc = "AWAITING_PROMPT" /\ clock' = clock /\ pc' # "eof"

\* the part of a file name between the timestamp prefix and '.png'
NamePart(name) == SubSeq(name, Len(Strftime(0)) + 2, Len(name) - 4)

\* the timestamp prefix of a file name
NameStamp(name) == SubSeq(name, 1, Len(Strftime(0)))

\* C1: every failure of the taxonomy (network failure or non-2xx status on the
\* POST or the GET, a response missing expected fields such as a first image
\* entry without 'url', a write error) is converted into an absent result: no
\* exception reaches main(), and the attempt ends at line 192 without a path.
C1_FailureBecomesAbsentResult ==
    LET malformed == hist.attempt.listed /\ hist.attempt.first = None
        failed ==
            \/ postStatus \in PostFailures \cup {Some("bad_json")}
            \/ getStatus \in GetFailures
            \/ hist.attempt.wrote \in {Some("open_error"), Some("write_error")}
            \/ malformed
    IN  failed =>
            /\ pc # "crashed"
            /\ pc \in {"returned", "sleep"} => filepath = None

\* C2: download_image is invoked if and only if generate_image returned a
\* response whose image list is present and non-empty; then it is invoked
\* exactly once, with the url of the first entry; otherwise it is not invoked
\* and the result is absent.
C2_DownloadIffImageList ==
    pc \in {"returned", "sleep", "crashed"} =>
        IF hist.attempt.listed
        THEN /\ Len(hist.attempt.calls) = 1
             /\ hist.attempt.first = Some(hist.attempt.calls[1])
        ELSE /\ hist.attempt.calls = <<>>
             /\ filepath = None

\* C3: when the POST fails with a network error or a non-2xx status,
\* generate_image returns None without raising, the POST is issued once, no
\* GET is issued, generate_and_download returns None and image_count keeps the
\* value it had before the attempt.
C3_PostFailure ==
    postStatus \in PostFailures =>
        /\ pc \in {"have_result", "returned", "sleep"}
        /\ result = None
        /\ ~hist.attempt.listed
        /\ hist.posts = hist.attempt.posts + 1
        /\ hist.gets = hist.attempt.gets
        /\ hist.attempt.calls = <<>>
        /\ pc \in {"returned", "sleep"} => filepath = None
        /\ image_count = hist.attempt.count

C3_Witness ==
    /\ pc = "sleep"
    /\ postStatus = Some("http_error")
    /\ image_count = 1

\* C4: a line that matches an exit keyword up to case moves the loop to
\* EXITING in that step, reporting image_count, with no POST, GET or sleep and
\* no file written; an exit keyword as the first prompt reports 0 images with
\* no network call in the whole run.
C4_ExitKeyword ==
    /\ [](pc = "EXITING" /\ hist.attempts = 0 =>
            /\ reported = 0
            /\ hist.posts = 0
            /\ hist.gets = 0
            /\ hist.sleeps = 0
            /\ DOMAIN files = {})
    /\ [][ReadsLine /\ MatchesExitKeyword(line') =>
            /\ pc' = "EXITING"
            /\ reported' = image_count
            /\ hist' = hist
            /\ files' = files]_vars

C4_Witness ==
    /\ pc = "EXITING"
    /\ line = <<" ", "Q", " ">>
    /\ hist.attempts = 0
    /\ reported = 0

\* C5: an empty prompt (empty after trimming) leaves the loop in
\* AWAITING_PROMPT and changes nothing else: no counter, no request, no file,
\* no sleep; generate_image is never reached with an empty prompt.
C5_EmptyPrompt ==
    /\ [](pc \in {"generate", "have_result", "returned", "sleep", "crashed"}
            => prompt # <<>>)
    /\ [][ReadsLine /\ Strip(line') = <<>> =>
            /\ pc' = "AWAITING_PROMPT"
            /\ UNCHANGED <<result, postStatus, getStatus, filepath,
                           image_count, reported, clock, files, hist>>]_vars

C5_Witness ==
    /\ pc = "AWAITING_PROMPT"
    /\ line = <<"\t", " ">>
    /\ image_count = 1
    /\ hist.sleeps = 1

\* C6: after every attempt, succeeded or failed, the loop sleeps exactly once
\* before it reads the next prompt: whenever the program is not inside an
\* attempt, every attempt so far has had its one sleep.
C6_SleepAfterEveryAttempt ==
    /\ pc \in {"AWAITING_PROMPT"} \cup Terminal => hist.sleeps = hist.attempts
    /\ pc \notin {"AWAITING_PROMPT"} \cup Terminal => hist.sleeps = hist.attempts - 1

\* C7: image_count is the number of attempts whose orchestration returned a
\* path (at line 192, the attempt that has just returned a path is the one not
\* yet counted), and the total reported on EXITING is that number.
C7_CounterCountsReturnedPaths ==
    /\ image_count >= 0
    /\ pc # "returned" => image_count = hist.returned
    /\ pc = "returned" =>
            image_count + (IF filepath # None THEN 1 ELSE 0) = hist.returned
    /\ pc = "EXITING" => reported = hist.returned

C7_Witness ==
    /\ pc = "EXITING"
    /\ hist.attempts = 2
    /\ reported = 1

\* C8: the part of the file name between the timestamp prefix and '.png' is
\* determined by the first 50 characters of the prompt and holds only
\* alphanumeric characters, underscores and hyphens.
C8_SafeFilename ==
    pc = "named" =>
        LET part == NamePart(filepath.some)
        IN  /\ \A i \in 1..Len(part) :
                part[i] \in LowerLetters \cup UpperLetters \cup Digits \cup {"_", "-"}
            /\ \A q \in FilenamePrompts :
                Take(q, PrefixLen) = Take(prompt, PrefixLen) =>
                    NamePart(Filename(NowSeconds(clock), q)) = part

C8_Witness ==
    /\ pc = "named"
    /\ Len(prompt) > PrefixLen
    /\ prompt[PrefixLen] = " "
    /\ prompt[PrefixLen + 1] = "Z"
    /\ NamePart(filepath.some) = Padding

C10_GetFailureLeavesFiles ==
    [][getStatus' # getStatus /\ getStatus' \in GetFailures =>
        /\ pc' = "returned"
        /\ filepath' = None
        /\ files' = files]_vars

C10_Witness ==
    /\ pc = "returned"
    /\ getStatus = Some("http_error")
    /\ DOMAIN files # {}

====
